---- MODULE Spec2Model ----
(***************************************************************************)
(* Model of rusted_pipe:                                                   *)
(*   - BtreeBufferedData, the multi-channel ordered packet buffer          *)
(*     (src/src/buffers/btree_data_buffers.rs), with the version-exact     *)
(*     assembly that consumes from it;                                     *)
(*   - ConsumerThread::consume and read_channel_data, the per-node worker  *)
(*     loops (src/src/graph/runtime.rs), with the graph runtime that       *)
(*     collects the done notifications.                                    *)
(* FixedSizeBTree (buffers/single_buffers), ReadChannel and the graph      *)
(* runtime are not among the source files; they are modelled from the      *)
(* design document (sections 4.B, 4.E, 4.H).                               *)
(***************************************************************************)
EXTENDS Integers, Sequences, FiniteSets, TLC

\* ------------------------------------------------------------------ bounds
\* Versions are DataVersion.timestamp values 1..MaxVersion.
MaxVersion == 3
\* new(max_size) is called with max_size in 1..MaxMaxSize.
MaxMaxSize == 2
\* The assembler hands at most MaxObserved tuples to the work queue.
MaxObserved == 2

\* max_size of FixedSizeBTree::default() (scaled down to the model's versions).
DefaultMaxSize == 2

Channels == {"ch0", "ch1"}
Versions == 1..MaxVersion
Payloads == {"hello", "world"}
None == "None"

\* UntypedPacket: a version and an opaque payload.
UntypedPacket == [version : Versions, payload : Payloads]

VARIABLES
    data,        \* BtreeBufferedData.data : ChannelID -> FixedSizeBTree
    max_size,    \* BtreeBufferedData.max_size
    lastOp,      \* the last buffer call: its arguments and what it returned
    observed     \* versions handed to the work queue by the assembler, in order

bufVars == <<data, max_size, lastOp, observed>>

\* Each node has MaxTuples input tuples in flight towards its work queue.
MaxTuples == 2
\* Capacity of a node's bounded work queue.
QueueCap == 1

Nodes == {"n1", "n2"}
Kinds == {"Source", "Transform", "Terminal"}
\* The graphs: n1 is a Source or a Transform, n2 a Terminal.
NodeKinds == {k \in [Nodes -> Kinds] : k["n1"] # "Terminal" /\ k["n2"] = "Terminal"}
\* What one processor invocation does: a Result, or a panic.
Outcomes == {"Ok", "EndOfStream", "Error", "Panic"}

VARIABLES
    graph,       \* GraphStatus, the `running` atomic
    kind,        \* the Processors variant of each node
    worker_status,      \* worker.status, the WorkerStatus atomic of each node
    cpc,         \* where each consumer thread is in ConsumerThread::consume
    task,        \* the thread-pool task of each node's current invocation
    result,      \* what the processor returned to that task
    task_packet,      \* the tuple moved into that task
    work_queue,  \* worker.work_queue: tuples assembled and not yet pulled
    pushed,      \* how many tuples the reader has pushed so far
    handled,     \* tuples handed to the processor's handle, in order
    poisoned,    \* whether the processor mutex is poisoned
    done_chan,   \* node ids sent on done_notification and not yet received
    reported,    \* node ids the runtime has received a done from
    rpc,         \* where each reader thread is in read_channel_data
    profiled,    \* consumers registered with the profiler
    ev           \* the done(id) the last step sent, if it sent one, and from where

rtVars == <<graph, kind, worker_status, cpc, task, result, task_packet, work_queue, pushed,
            handled, poisoned, done_chan, reported, rpc, profiled, ev>>

\* No done was sent.
NoEv == [node |-> None, by |-> None]

vars == <<bufVars, rtVars>>

\* The runtime part at rest, for the specifications of the buffer alone.
RtAtRest ==
    /\ graph = "Running"
    /\ kind = [n \in Nodes |-> "Terminal"]
    /\ worker_status = [n \in Nodes |-> "Idle"]
    /\ cpc = [n \in Nodes |-> "start"]
    /\ task = [n \in Nodes |-> "none"]
    /\ result = [n \in Nodes |-> None]
    /\ task_packet = [n \in Nodes |-> 0]
    /\ work_queue = [n \in Nodes |-> <<>>]
    /\ pushed = [n \in Nodes |-> 0]
    /\ handled = [n \in Nodes |-> <<>>]
    /\ poisoned = [n \in Nodes |-> FALSE]
    /\ done_chan = {}
    /\ reported = {}
    /\ rpc = [n \in Nodes |-> "loop"]
    /\ profiled = {}
    /\ ev = NoEv

\* ---------------------------------------------------- FixedSizeBTree (4.B)
\* A single-channel buffer: an ordered map version -> payload and its capacity.
EmptyMap == [v \in {} |-> None]

FixedSizeBTree_default == [data |-> EmptyMap, max_size |-> DefaultMaxSize]

MinKey(m) == CHOOSE v \in DOMAIN m : \A w \in DOMAIN m : v <= w

DropKey(m, k) == [v \in (DOMAIN m) \ {k} |-> m[v]]

\* insert(v, p): store, then evict the smallest version while over capacity.
BTree_insert(t, v, p) ==
    LET put == [w \in (DOMAIN t.data) \cup {v} |-> IF w = v THEN p ELSE t.data[w]]
    IN  [t EXCEPT !.data = IF Cardinality(DOMAIN put) > t.max_size
                           THEN DropKey(put, MinKey(put))
                           ELSE put]

BTree_contains_key(t, v) == v \in DOMAIN t.data

BTree_get(t, v) == IF v \in DOMAIN t.data THEN t.data[v] ELSE None

\* remove(v): removes the entry at v.
BTree_remove(t, v) == [t EXCEPT !.data = DropKey(t.data, v)]

\* cleanup_before(v): erases all entries with version < v.
BTree_cleanup_before(t, v) ==
    [t EXCEPT !.data = [w \in {x \in DOMAIN t.data : x >= v} |-> t.data[w]]]

\* ------------------------------------------------------ BtreeBufferedData
\* Every method is an operator from the buffer (and the arguments) to
\* [buf |-> the buffer afterwards, status |-> Ok or the error, and the value
\* returned: rchannel/rversion for a ChannelID or a PacketBufferAddress,
\* packet for an Option<UntypedPacket>, by payload].
Ret(buf, status, rchannel, rversion, packet) ==
    [buf |-> buf, status |-> status, rchannel |-> rchannel,
     rversion |-> rversion, packet |-> packet]

Err(buf, error) == Ret(buf, error, None, 0, None)

\* get_channel: Ok iff the channel is a key of data.
get_channel_ok(buf, channel) == channel \in DOMAIN buf

\* get_or_create_channel: entry(channel).or_insert(FixedSizeBTree::default()).
get_or_create_channel(buf, channel) ==
    IF channel \in DOMAIN buf
    THEN buf
    ELSE [c \in (DOMAIN buf) \cup {channel} |->
            IF c = channel THEN FixedSizeBTree_default ELSE buf[c]]

has_version(buf, channel, version) ==
    channel \in DOMAIN buf /\ BTree_contains_key(buf[channel], version)

\* A slip: the has_version test is left out, so the map entry is overwritten.
insert_NoDuplicateCheck(buf, channel, packet) ==
    IF ~get_channel_ok(buf, channel)
    THEN Err(buf, "InternalError")
    ELSE Ret([buf EXCEPT ![channel] = BTree_insert(@, packet.version, packet.payload)],
             "Ok", channel, packet.version, None)

\* A slip: get_or_create_channel in place of get_channel.
insert_CreatesChannel(buf, channel, packet) ==
    IF has_version(buf, channel, packet.version)
    THEN Err(buf, "DuplicateDataVersionError")
    ELSE Ret([get_or_create_channel(buf, channel) EXCEPT
                ![channel] = BTree_insert(@, packet.version, packet.payload)],
             "Ok", channel, packet.version, None)

\* A slip: the packet is inserted into a copy of the channel and is lost.
insert_StoresNothing(buf, channel, packet) ==
    IF has_version(buf, channel, packet.version)
    THEN Err(buf, "DuplicateDataVersionError")
    ELSE IF ~get_channel_ok(buf, channel)
    THEN Err(buf, "InternalError")
    ELSE Ret(buf, "Ok", channel, packet.version, None)

insert(buf, channel, packet) ==
    IF has_version(buf, channel, packet.version)
    THEN Err(buf, "DuplicateDataVersionError")
    ELSE IF ~get_channel_ok(buf, channel)
    THEN Err(buf, "InternalError")
    ELSE Ret([buf EXCEPT ![channel] = BTree_insert(@, packet.version, packet.payload)],
             "Ok", channel, packet.version, None)

\* A slip: the cleanup_before call is left out.
consume_NoCleanup(buf, channel, version) ==
    IF ~get_channel_ok(buf, channel)
    THEN Err(buf, "InternalError")
    ELSE Ret([buf EXCEPT ![channel] = BTree_remove(@, version)],
             "Ok", None, 0, BTree_get(buf[channel], version))

\* A slip: cleanup_before only when remove found the version.
consume_CleanupOnlyIfFound(buf, channel, version) ==
    IF ~get_channel_ok(buf, channel)
    THEN Err(buf, "InternalError")
    ELSE IF ~BTree_contains_key(buf[channel], version)
    THEN Ret(buf, "Ok", None, 0, None)
    ELSE LET removed == [buf EXCEPT ![channel] = BTree_remove(@, version)]
         IN  Ret([removed EXCEPT ![channel] = BTree_cleanup_before(@, version)],
                 "Ok", None, 0, BTree_get(buf[channel], version))

\* A slip: cleanup_before runs on every channel of the buffer.
consume_AllChannels(buf, channel, version) ==
    IF ~get_channel_ok(buf, channel)
    THEN Err(buf, "InternalError")
    ELSE LET removed == [buf EXCEPT ![channel] = BTree_remove(@, version)]
         IN  Ret([c \in DOMAIN removed |-> BTree_cleanup_before(removed[c], version)],
                 "Ok", None, 0, BTree_get(buf[channel], version))

consume(buf, channel, version) ==
    IF ~get_channel_ok(buf, channel)
    THEN Err(buf, "InternalError")
    ELSE LET removed == [buf EXCEPT ![channel] = BTree_remove(@, version)]
         IN  Ret([removed EXCEPT ![channel] = BTree_cleanup_before(@, version)],
                 "Ok", None, 0, BTree_get(buf[channel], version))

\* A slip: remove in place of get.
get_Removes(buf, channel, version) ==
    IF ~get_channel_ok(buf, channel)
    THEN Err(buf, "InternalError")
    ELSE Ret([buf EXCEPT ![channel] = BTree_remove(@, version)],
             "Ok", None, 0, BTree_get(buf[channel], version))

get(buf, channel, version) ==
    IF ~get_channel_ok(buf, channel)
    THEN Err(buf, "InternalError")
    ELSE Ret(buf, "Ok", None, 0, BTree_get(buf[channel], version))

available_channels(buf) == DOMAIN buf

\* A slip: the contains_key test is left out and the entry is written anew.
create_channel_Overwrites(buf, channel) ==
    Ret([c \in (DOMAIN buf) \cup {channel} |->
            IF c = channel THEN FixedSizeBTree_default ELSE buf[c]],
        "Ok", channel, 0, None)

create_channel(buf, channel) ==
    IF channel \in DOMAIN buf
    THEN Err(buf, "DuplicateChannelError")
    ELSE Ret(get_or_create_channel(buf, channel), "Ok", channel, 0, None)

\* new(max_size): no channel yet.
new == [c \in {} |-> FixedSizeBTree_default]

\* ------------------------------------------------------------- buffer calls
\* lastOp: the call's name and arguments, and what it returned.
Call(name, channel, version, payload, r) ==
    [name |-> name, channel |-> channel, version |-> version, payload |-> payload,
     status |-> r.status, rchannel |-> r.rchannel, rversion |-> r.rversion,
     packet |-> r.packet]

NoCall == Call("new", None, 0, None, Err(new, "Ok"))

IsCall(op, name, channel, version) ==
    op.name = name /\ op.channel = channel /\ op.version = version

BufInit ==
    /\ data = new
    /\ max_size \in 1..MaxMaxSize
    /\ lastOp = NoCall
    /\ observed = <<>>
    /\ RtAtRest

CreateChannel(c) ==
    LET r == create_channel(data, c)
    IN  /\ data' = r.buf
        /\ lastOp' = Call("create_channel", c, 0, None, r)
        /\ UNCHANGED <<max_size, observed, rtVars>>

Insert(c, p) ==
    LET r == insert(data, c, p)
    IN  /\ data' = r.buf
        /\ lastOp' = Call("insert", c, p.version, p.payload, r)
        /\ UNCHANGED <<max_size, observed, rtVars>>

Consume(c, v) ==
    LET r == consume(data, c, v)
    IN  /\ data' = r.buf
        /\ lastOp' = Call("consume", c, v, None, r)
        /\ UNCHANGED <<max_size, observed, rtVars>>

Get(c, v) ==
    LET r == get(data, c, v)
    IN  /\ data' = r.buf
        /\ lastOp' = Call("get", c, v, None, r)
        /\ UNCHANGED <<max_size, observed, rtVars>>

BufNext ==
    \/ \E c \in Channels : CreateChannel(c)
    \/ \E c \in Channels, p \in UntypedPacket : Insert(c, p)
    \/ \E c \in Channels, v \in Versions : Consume(c, v)
    \/ \E c \in Channels, v \in Versions : Get(c, v)

\* The buffer under arbitrary calls of its interface.
Spec == BufInit /\ [][BufNext]_vars

\* ------------------------------------------- version-exact assembly (4.E)
\* A ReadChannel owns the buffer; its channels are created at construction.
\* One read cycle drains the recv queues into the buffer (Receive, one packet
\* at a time, in any arrival order) and then assembles (Assemble).
ReaderInit ==
    /\ \E bound \in (SUBSET Channels) \ {{}} :
          data = [c \in bound |-> FixedSizeBTree_default]
    /\ max_size \in 1..MaxMaxSize
    /\ lastOp = NoCall
    /\ observed = <<>>
    /\ RtAtRest

\* A packet taken from channel c's recv queue is inserted; a duplicate version
\* is dropped.
Receive(c, p) ==
    /\ c \in available_channels(data)
    /\ Insert(c, p)

\* The versions every bound channel holds.
Matching(buf) ==
    {v \in Versions : \A c \in available_channels(buf) : has_version(buf, c, v)}

RECURSIVE ConsumeAll(_, _, _)
ConsumeAll(buf, chans, v) ==
    IF chans = {}
    THEN buf
    ELSE LET c == CHOOSE x \in chans : TRUE
         IN  ConsumeAll(consume(buf, c, v).buf, chans \ {c}, v)

\* One assembly: the smallest version v* present on every channel is consumed
\* from each channel and handed on as one tuple.
Assemble ==
    /\ Matching(data) # {}
    /\ Len(observed) < MaxObserved
    /\ LET v == CHOOSE x \in Matching(data) : \A y \in Matching(data) : x <= y
       IN  /\ data' = ConsumeAll(data, available_channels(data), v)
           /\ observed' = Append(observed, v)
           /\ lastOp' = Call("assemble", None, v, None, Err(data, "Ok"))
    /\ UNCHANGED <<max_size, rtVars>>

ReaderNext ==
    \/ \E c \in Channels, p \in UntypedPacket : Receive(c, p)
    \/ Assemble

SpecReader == ReaderInit /\ [][ReaderNext]_vars

\* ------------------------------------------------------------ graph runtime
\* The buffer part at rest, for the specifications of the runtime alone.
BufAtRest ==
    /\ data = new
    /\ max_size = 1
    /\ lastOp = NoCall
    /\ observed = <<>>

HasQueue(n) == kind[n] # "Source"

\* After construction: every node Idle, its threads spawned and not yet run.
RtInit ==
    /\ graph = "Running"
    /\ kind \in NodeKinds
    /\ worker_status = [n \in Nodes |-> "Idle"]
    /\ cpc = [n \in Nodes |-> "start"]
    /\ task = [n \in Nodes |-> "none"]
    /\ result = [n \in Nodes |-> None]
    /\ task_packet = [n \in Nodes |-> 0]
    /\ work_queue = [n \in Nodes |-> <<>>]
    /\ pushed = [n \in Nodes |-> 0]
    /\ handled = [n \in Nodes |-> <<>>]
    /\ poisoned = [n \in Nodes |-> FALSE]
    /\ done_chan = {}
    /\ reported = {}
    /\ rpc = [n \in Nodes |-> IF HasQueue(n) THEN "loop" ELSE "none"]
    /\ profiled = {}
    /\ ev = NoEv
    /\ BufAtRest

\* done_notification.send(id)
SendDone(n, by) ==
    /\ done_chan' = done_chan \cup {n}
    /\ ev' = [node |-> n, by |-> by]

\* ---- ConsumerThread::consume
\* profiler.add
ConsumerStart(n) ==
    /\ cpc[n] = "start"
    /\ profiled' = profiled \cup {n}
    /\ cpc' = [cpc EXCEPT ![n] = "loop"]
    /\ UNCHANGED <<graph, kind, worker_status, task, result, task_packet, work_queue, pushed,
                   handled, poisoned, done_chan, reported, rpc, bufVars>>
    /\ ev' = NoEv

\* A consumer loop that takes the Idle branch whatever worker.status holds.
ConsumerLoop_IgnoresStatus(n) ==
    /\ cpc[n] = "loop"
    /\ IF graph = "Terminating"
       THEN /\ cpc' = [cpc EXCEPT ![n] = "exited"]
            /\ profiled' = profiled \ {n}
       ELSE /\ cpc' = [cpc EXCEPT ![n] = "idle"]
            /\ UNCHANGED profiled
    /\ UNCHANGED <<graph, kind, worker_status, task, result, task_packet, work_queue, pushed,
                   handled, poisoned, done_chan, reported, rpc, bufVars>>
    /\ ev' = NoEv

\* The loop test and the test of worker.status; on Terminating the consumer
\* leaves the loop and deregisters.
ConsumerLoop(n) ==
    /\ cpc[n] = "loop"
    /\ IF graph = "Terminating"
       THEN /\ cpc' = [cpc EXCEPT ![n] = "exited"]
            /\ profiled' = profiled \ {n}
       ELSE /\ cpc' = [cpc EXCEPT ![n] = IF worker_status[n] = "Idle" THEN "idle" ELSE "sleep"]
            /\ UNCHANGED profiled
    /\ UNCHANGED <<graph, kind, worker_status, task, result, task_packet, work_queue, pushed,
                   handled, poisoned, done_chan, reported, rpc, bufVars>>
    /\ ev' = NoEv

\* status.store(Running) and thread_pool.evaluate(future) with tuple t.
Dispatch(n, t) ==
    /\ worker_status' = [worker_status EXCEPT ![n] = "Running"]
    /\ task_packet' = [task_packet EXCEPT ![n] = t]
    /\ task' = [task EXCEPT ![n] = "queued"]
    /\ cpc' = [cpc EXCEPT ![n] = "await"]

\* work_queue.get returned a tuple: it is dispatched.
ConsumerPull(n) ==
    /\ cpc[n] = "idle"
    /\ HasQueue(n)
    /\ work_queue[n] # <<>>
    /\ work_queue' = [work_queue EXCEPT ![n] = Tail(@)]
    /\ Dispatch(n, Head(work_queue[n]))
    /\ UNCHANGED <<graph, kind, result, pushed, handled, poisoned, done_chan,
                   reported, rpc, profiled, bufVars>>
    /\ ev' = NoEv

\* work_queue.get timed out on an empty queue.
ConsumerTimeout(n) ==
    /\ cpc[n] = "idle"
    /\ HasQueue(n)
    /\ work_queue[n] = <<>>
    /\ cpc' = [cpc EXCEPT ![n] = "timeout"]
    /\ UNCHANGED <<graph, kind, worker_status, task, result, task_packet, work_queue, pushed,
                   handled, poisoned, done_chan, reported, rpc, profiled, bufVars>>
    /\ ev' = NoEv

\* A timeout branch that sends done(id) without the test of GraphStatus.
ConsumerTimeoutCheck_NoGraphTest(n) ==
    /\ cpc[n] = "timeout"
    /\ cpc' = [cpc EXCEPT ![n] = "timeout_send"]
    /\ UNCHANGED <<graph, kind, worker_status, task, result, task_packet, work_queue, pushed,
                   handled, poisoned, done_chan, reported, rpc, profiled, bufVars>>
    /\ ev' = NoEv

\* After the timeout: the test of GraphStatus.
ConsumerTimeoutCheck(n) ==
    /\ cpc[n] = "timeout"
    /\ cpc' = [cpc EXCEPT ![n] =
                 IF graph = "WaitingForDataToTerminate" THEN "timeout_send" ELSE "loop"]
    /\ UNCHANGED <<graph, kind, worker_status, task, result, task_packet, work_queue, pushed,
                   handled, poisoned, done_chan, reported, rpc, profiled, bufVars>>
    /\ ev' = NoEv

\* The graph was draining: done(id); continue.
ConsumerTimeoutSend(n) ==
    /\ cpc[n] = "timeout_send"
    /\ SendDone(n, "timeout")
    /\ cpc' = [cpc EXCEPT ![n] = "loop"]
    /\ UNCHANGED <<graph, kind, worker_status, task, result, task_packet, work_queue, pushed,
                   handled, poisoned, reported, rpc, profiled, bufVars>>

\* A node without work queue (a Source) dispatches with no input.
ConsumerDispatchSource(n) ==
    /\ cpc[n] = "idle"
    /\ ~HasQueue(n)
    /\ Dispatch(n, 0)
    /\ UNCHANGED <<graph, kind, result, work_queue, pushed, handled, poisoned,
                   done_chan, reported, rpc, profiled, bufVars>>
    /\ ev' = NoEv

\* A consumer that does not wait for the task: the handle is dropped and the
\* loop goes on while the task may still be running.
ConsumerAwait_NoWait(n) ==
    /\ cpc[n] = "await"
    /\ worker_status' = [worker_status EXCEPT ![n] = IF task[n] = "panicked" THEN "Idle" ELSE @]
    /\ task' = [task EXCEPT ![n] = IF @ \in {"complete", "panicked"} THEN "none" ELSE @]
    /\ result' = [result EXCEPT ![n] = IF task[n] \in {"complete", "panicked"} THEN None ELSE @]
    /\ task_packet' = [task_packet EXCEPT ![n] =
                         IF task[n] \in {"complete", "panicked"} THEN 0 ELSE @]
    /\ cpc' = [cpc EXCEPT ![n] = "loop"]
    /\ UNCHANGED <<graph, kind, work_queue, pushed, handled, poisoned, done_chan,
                   reported, rpc, profiled, bufVars>>
    /\ ev' = NoEv

\* A consumer that stores Idle after every task, panicked or not.
ConsumerAwait_AlwaysIdle(n) ==
    /\ cpc[n] = "await"
    /\ task[n] \in {"complete", "panicked"}
    /\ worker_status' = [worker_status EXCEPT ![n] = "Idle"]
    /\ task' = [task EXCEPT ![n] = "none"]
    /\ result' = [result EXCEPT ![n] = None]
    /\ task_packet' = [task_packet EXCEPT ![n] = 0]
    /\ cpc' = [cpc EXCEPT ![n] = "loop"]
    /\ UNCHANGED <<graph, kind, work_queue, pushed, handled, poisoned, done_chan,
                   reported, rpc, profiled, bufVars>>
    /\ ev' = NoEv

\* handle.try_await_complete(): returns when the task is over; a panicked task
\* resets the worker_status to Idle.
ConsumerAwait(n) ==
    /\ cpc[n] = "await"
    /\ task[n] \in {"complete", "panicked"}
    /\ worker_status' = [worker_status EXCEPT ![n] = IF task[n] = "panicked" THEN "Idle" ELSE @]
    /\ task' = [task EXCEPT ![n] = "none"]
    /\ result' = [result EXCEPT ![n] = None]
    /\ task_packet' = [task_packet EXCEPT ![n] = 0]
    /\ cpc' = [cpc EXCEPT ![n] = "loop"]
    /\ UNCHANGED <<graph, kind, work_queue, pushed, handled, poisoned, done_chan,
                   reported, rpc, profiled, bufVars>>
    /\ ev' = NoEv

\* The non-idle branch: sleep, then the test of GraphStatus.
ConsumerSleep(n) ==
    /\ cpc[n] = "sleep"
    /\ cpc' = [cpc EXCEPT ![n] =
                 IF graph = "WaitingForDataToTerminate" THEN "sleep_send" ELSE "loop"]
    /\ UNCHANGED <<graph, kind, worker_status, task, result, task_packet, work_queue, pushed,
                   handled, poisoned, done_chan, reported, rpc, profiled, bufVars>>
    /\ ev' = NoEv

\* The graph was draining: done(id).
ConsumerSleepSend(n) ==
    /\ cpc[n] = "sleep_send"
    /\ SendDone(n, "sleep")
    /\ cpc' = [cpc EXCEPT ![n] = "loop"]
    /\ UNCHANGED <<graph, kind, worker_status, task, result, task_packet, work_queue, pushed,
                   handled, poisoned, reported, rpc, profiled, bufVars>>

\* ---- the task run by the thread pool
\* processor.lock().unwrap() and proc.handle(..): unwrap panics on a poisoned
\* mutex; a panic inside handle unwinds through the guard and poisons it.
TaskInvoke(n, outcome) ==
    /\ task[n] = "queued"
    /\ IF poisoned[n]
       THEN /\ outcome = "Panic"
            /\ task' = [task EXCEPT ![n] = "panicked"]
            /\ UNCHANGED <<handled, poisoned, result>>
       ELSE /\ handled' = [handled EXCEPT ![n] =
                              IF HasQueue(n) THEN Append(@, task_packet[n]) ELSE @]
            /\ IF outcome = "Panic"
               THEN /\ task' = [task EXCEPT ![n] = "panicked"]
                    /\ poisoned' = [poisoned EXCEPT ![n] = TRUE]
                    /\ UNCHANGED result
               ELSE /\ task' = [task EXCEPT ![n] = "returned"]
                    /\ result' = [result EXCEPT ![n] = outcome]
                    /\ UNCHANGED poisoned
    /\ UNCHANGED <<graph, kind, worker_status, cpc, task_packet, work_queue, pushed, done_chan,
                   reported, rpc, profiled, bufVars>>
    /\ ev' = NoEv

\* A result match whose EndOfStream arm sends done(id) only while the graph
\* drains.
TaskMatch_DoneOnlyWhenDraining(n) ==
    /\ task[n] = "returned"
    /\ worker_status' = [worker_status EXCEPT ![n] = IF result[n] = "Ok" THEN "Idle" ELSE "Terminating"]
    /\ IF result[n] = "EndOfStream" /\ graph = "WaitingForDataToTerminate"
       THEN SendDone(n, "task")
       ELSE UNCHANGED done_chan /\ ev' = NoEv
    /\ task' = [task EXCEPT ![n] = "complete"]
    /\ UNCHANGED <<graph, kind, cpc, result, task_packet, work_queue, pushed, handled,
                   poisoned, reported, rpc, profiled, bufVars>>

\* match result: Ok, EndOfStream, any other error.
TaskMatch(n) ==
    /\ task[n] = "returned"
    /\ worker_status' = [worker_status EXCEPT ![n] = IF result[n] = "Ok" THEN "Idle" ELSE "Terminating"]
    /\ IF result[n] = "EndOfStream"
       THEN SendDone(n, "task")
       ELSE UNCHANGED done_chan /\ ev' = NoEv
    /\ task' = [task EXCEPT ![n] = "complete"]
    /\ UNCHANGED <<graph, kind, cpc, result, task_packet, work_queue, pushed, handled,
                   poisoned, reported, rpc, profiled, bufVars>>

\* ---- read_channel_data
\* The loop test of the reader thread finds Terminating: the loop is left.
ReaderLoop(n) ==
    /\ rpc[n] = "loop"
    /\ graph = "Terminating"
    /\ rpc' = [rpc EXCEPT ![n] = "stopping"]
    /\ UNCHANGED <<graph, kind, worker_status, cpc, task, result, task_packet, work_queue, pushed,
                   handled, poisoned, done_chan, reported, profiled, bufVars>>
    /\ ev' = NoEv

\* The loop test passes and read_channel.read assembles a tuple for the work
\* queue.
ReaderAssemble(n) ==
    /\ rpc[n] = "loop"
    /\ graph # "Terminating"
    /\ pushed[n] < MaxTuples
    /\ rpc' = [rpc EXCEPT ![n] = "pushing"]
    /\ UNCHANGED <<graph, kind, worker_status, cpc, task, result, task_packet, work_queue,
                   pushed, handled, poisoned, done_chan, reported, profiled, bufVars>>
    /\ ev' = NoEv

\* The push into the bounded work queue; it blocks while the queue is full.
ReaderPush(n) ==
    /\ rpc[n] = "pushing"
    /\ Len(work_queue[n]) < QueueCap
    /\ pushed' = [pushed EXCEPT ![n] = @ + 1]
    /\ work_queue' = [work_queue EXCEPT ![n] = Append(@, pushed[n] + 1)]
    /\ rpc' = [rpc EXCEPT ![n] = "loop"]
    /\ UNCHANGED <<graph, kind, worker_status, cpc, task, result, task_packet, handled, poisoned,
                   done_chan, reported, profiled, bufVars>>
    /\ ev' = NoEv

\* The loop test passes and read_channel.read finds nothing to assemble. (The
\* done(id) a reader may emit while the graph drains is left out: the runtime
\* counts node ids, and the consumer of the same node sends the same id.)
ReaderNoData(n) ==
    /\ rpc[n] = "loop"
    /\ graph # "Terminating"
    /\ UNCHANGED <<graph, kind, worker_status, cpc, task, result, task_packet, work_queue,
                   pushed, handled, poisoned, done_chan, reported, rpc, profiled, bufVars>>
    /\ ev' = NoEv

\* read_channel.stop()
ReaderStop(n) ==
    /\ rpc[n] = "stopping"
    /\ rpc' = [rpc EXCEPT ![n] = "stopped"]
    /\ UNCHANGED <<graph, kind, worker_status, cpc, task, result, task_packet, work_queue, pushed,
                   handled, poisoned, done_chan, reported, profiled, bufVars>>
    /\ ev' = NoEv

\* ---- the graph runtime (4.H)
\* The external stop.
Stop ==
    /\ graph = "Running"
    /\ graph' = "WaitingForDataToTerminate"
    /\ UNCHANGED <<kind, worker_status, cpc, task, result, task_packet, work_queue, pushed,
                   handled, poisoned, done_chan, reported, rpc, profiled, bufVars>>
    /\ ev' = NoEv

\* The runtime receives a done and counts the node.
RuntimeRecv(n) ==
    /\ graph = "WaitingForDataToTerminate"
    /\ n \in done_chan
    /\ done_chan' = done_chan \ {n}
    /\ reported' = reported \cup {n}
    /\ UNCHANGED <<graph, kind, worker_status, cpc, task, result, task_packet, work_queue, pushed,
                   handled, poisoned, rpc, profiled, bufVars>>
    /\ ev' = NoEv

\* Every node has reported: the graph terminates.
RuntimeTerminate ==
    /\ graph = "WaitingForDataToTerminate"
    /\ reported = Nodes
    /\ graph' = "Terminating"
    /\ UNCHANGED <<kind, worker_status, cpc, task, result, task_packet, work_queue, pushed,
                   handled, poisoned, done_chan, reported, rpc, profiled, bufVars>>
    /\ ev' = NoEv

ConsumerStep(n) ==
    \/ ConsumerStart(n)
    \/ ConsumerLoop(n)
    \/ ConsumerPull(n)
    \/ ConsumerTimeout(n)
    \/ ConsumerTimeoutCheck(n)
    \/ ConsumerTimeoutSend(n)
    \/ ConsumerDispatchSource(n)
    \/ ConsumerAwait(n)
    \/ ConsumerSleep(n)
    \/ ConsumerSleepSend(n)

TaskStep(n) ==
    \/ \E outcome \in Outcomes : TaskInvoke(n, outcome)
    \/ TaskMatch(n)

ReaderStep(n) ==
    \/ ReaderLoop(n)
    \/ ReaderAssemble(n)
    \/ ReaderPush(n)
    \/ ReaderNoData(n)
    \/ ReaderStop(n)

RuntimeStep ==
    \/ \E n \in Nodes : RuntimeRecv(n)
    \/ RuntimeTerminate

RtNext ==
    \/ \E n \in Nodes : ConsumerStep(n)
    \/ \E n \in Nodes : TaskStep(n)
    \/ \E n \in Nodes : ReaderStep(n)
    \/ RuntimeStep
    \/ Stop

SpecRuntime == RtInit /\ [][RtNext]_vars

\* Every thread that can take a step is eventually scheduled; the external
\* stop is under no obligation.
RtFairness ==
    /\ \A n \in Nodes : WF_vars(ConsumerStep(n))
    /\ \A n \in Nodes : WF_vars(TaskStep(n))
    /\ \A n \in Nodes : WF_vars(ReaderStep(n))
    /\ WF_vars(RuntimeStep)

FairSpecRuntime == RtInit /\ [][RtNext]_vars /\ RtFairness

\* ================================================================ claims
\* The packet get((c, v)) returns on buffer buf.
Stored(buf, c, v) == get(buf, c, v).packet

\* C1: a second insert of a version that channel c still holds fails with
\* DuplicateDataVersionError and leaves the buffer as it was, so get((c, v))
\* still returns the first packet.
C1_DuplicateInsertRejected ==
    [][\A c \in Channels, v \in Versions :
          (has_version(data, c, v) /\ IsCall(lastOp', "insert", c, v))
          => /\ lastOp'.status = "DuplicateDataVersionError"
             /\ data' = data
             /\ Stored(data', c, v) = Stored(data, c, v)]_vars

C1_Witness ==
    /\ lastOp.name = "insert"
    /\ lastOp.status = "DuplicateDataVersionError"
    /\ has_version(data, lastOp.channel, lastOp.version)
    /\ Stored(data, lastOp.channel, lastOp.version) # lastOp.payload

\* C2: after consume((c, v)) returned Ok, no version v' <= v is left in
\* channel c: get((c, v')) returns None and has_version(c, v') is false.
C2_CleanupAfterConsume ==
    (lastOp.name = "consume" /\ lastOp.status = "Ok")
    => \A w \in Versions :
          w <= lastOp.version
          => /\ ~has_version(data, lastOp.channel, w)
             /\ get(data, lastOp.channel, w).status = "Ok"
             /\ Stored(data, lastOp.channel, w) = None

\* A consume that returned the packet at v while a larger version stays.
C2_Witness ==
    /\ lastOp.name = "consume"
    /\ lastOp.status = "Ok"
    /\ lastOp.version > 1
    /\ lastOp.packet # None
    /\ \E w \in Versions : w > lastOp.version /\ has_version(data, lastOp.channel, w)

\* C3: insert on a channel that was never created fails with the
\* missing-channel error (InternalError), creates no channel and stores
\* nothing, also when other channels exist.
C3_InsertOnMissingChannel ==
    [][\A c \in Channels, v \in Versions :
          (c \notin available_channels(data) /\ IsCall(lastOp', "insert", c, v))
          => /\ lastOp'.status = "InternalError"
             /\ available_channels(data') = available_channels(data)
             /\ data' = data]_vars

C3_Witness ==
    /\ lastOp.name = "insert"
    /\ lastOp.status = "InternalError"
    /\ lastOp.channel \notin available_channels(data)
    /\ \E c \in available_channels(data) : data[c].data # EmptyMap

\* C4: create_channel(c) succeeds and returns c when c does not exist yet;
\* on an existing channel it fails with DuplicateChannelError and leaves the
\* packets of every channel unchanged.
C4_CreateChannelOnce ==
    [][\A c \in Channels :
          IsCall(lastOp', "create_channel", c, 0)
          => IF c \in available_channels(data)
             THEN /\ lastOp'.status = "DuplicateChannelError"
                  /\ data' = data
             ELSE /\ lastOp'.status = "Ok"
                  /\ lastOp'.rchannel = c
                  /\ available_channels(data') = available_channels(data) \cup {c}
                  /\ data'[c].data = EmptyMap
                  /\ \A d \in available_channels(data) : data'[d] = data[d]]_vars

C4_Witness ==
    /\ lastOp.name = "create_channel"
    /\ lastOp.status = "DuplicateChannelError"
    /\ data[lastOp.channel].data # EmptyMap

\* C5: get((c, v)) leaves every channel as it was, and a get that follows a
\* get of the same address returns the same result.
C5_GetRetains ==
    [][\A c \in Channels, v \in Versions :
          IsCall(lastOp', "get", c, v)
          => /\ data' = data
             /\ c \in available_channels(data) => lastOp'.status = "Ok"
             /\ has_version(data, c, v) => lastOp'.packet = data[c].data[v]
             /\ (c \in available_channels(data) /\ ~has_version(data, c, v))
                   => lastOp'.packet = None
             /\ IsCall(lastOp, "get", c, v)
                   => (lastOp'.status = lastOp.status /\ lastOp'.packet = lastOp.packet)]_vars

C5_Witness ==
    /\ lastOp.name = "get"
    /\ lastOp.status = "Ok"
    /\ lastOp.packet # None
    /\ has_version(data, lastOp.channel, lastOp.version)

\* C6: every channel holds at most max_size versions, max_size being the
\* argument of new.
C6_MaxSizeHonoured ==
    \A c \in available_channels(data) :
        Cardinality(DOMAIN data[c].data) <= max_size

\* C7: the versions the assembler consumes and hands on are strictly
\* increasing, in every arrival order of the packets.
C7_OrderedConsumption ==
    \A i \in 1..Len(observed) : \A j \in 1..Len(observed) :
        i < j => observed[i] < observed[j]

\* Nodes that have sent at least one done(id).
SentDone == done_chan \cup reported

Range(q) == {q[i] : i \in 1..Len(q)}

\* C8: once the external stop has set WaitingForDataToTerminate, every node
\* eventually sends at least one done(id).
C8_EveryNodeSendsDone ==
    (graph = "WaitingForDataToTerminate") ~> (SentDone = Nodes)

\* C9: when the graph is Terminating, every tuple pushed into a node's work
\* queue has been handed to that node's processor.
C9_DrainBeforeTerminating ==
    graph = "Terminating"
    => \A n \in Nodes : \A t \in 1..pushed[n] : t \in Range(handled[n])

\* C10: after a panicking invocation the consumer keeps running with the
\* status Idle and the work queue as it was, and every tuple dispatched, also
\* after a panic, is handed to the processor.
C10_PanicSurvival ==
    [][\A n \in Nodes :
          /\ (task[n] = "panicked" /\ task'[n] = "none")
             => /\ worker_status'[n] = "Idle"
                /\ work_queue'[n] = work_queue[n]
                /\ cpc'[n] = "loop"
          /\ (HasQueue(n) /\ task[n] = "queued" /\ task'[n] # "queued")
             => handled'[n] = Append(handled[n], task_packet[n])]_vars

\* The step in which the pool task of node n leaves the result match.
TaskMatched(n) == task[n] = "returned" /\ task'[n] = "complete"

\* C11: for every node at most one processor invocation is in flight: a task
\* that is not over keeps the consumer in try_await_complete, and a new task
\* is dispatched only when no earlier task of the node is left.
C11_OneInFlight ==
    /\ [](\A n \in Nodes : task[n] # "none" => cpc[n] = "await")
    /\ [][\A n \in Nodes :
             (cpc[n] # "await" /\ cpc'[n] = "await")
             => (task[n] = "none" /\ task'[n] = "queued")]_vars

\* A tuple waits in the work queue while an invocation of the node runs.
C11_Witness ==
    \E n \in Nodes :
        /\ task[n] \in {"queued", "returned"}
        /\ work_queue[n] # <<>>
        /\ graph = "WaitingForDataToTerminate"

\* C12: worker_status moves only Idle->Running (a task is dispatched),
\* Running->Idle (the invocation returned Ok or panicked) and
\* Running->Terminating (EndOfStream or another error); from Terminating it
\* never changes.
C12_StatusLifecycle ==
    [][\A n \in Nodes :
          worker_status'[n] # worker_status[n]
          => \/ /\ worker_status[n] = "Idle"
                /\ worker_status'[n] = "Running"
                /\ task'[n] = "queued"
             \/ /\ worker_status[n] = "Running"
                /\ worker_status'[n] = "Idle"
                /\ \/ TaskMatched(n) /\ result[n] = "Ok"
                   \/ task[n] = "panicked"
             \/ /\ worker_status[n] = "Running"
                /\ worker_status'[n] = "Terminating"
                /\ TaskMatched(n)
                /\ result[n] \in {"EndOfStream", "Error"}]_vars

\* One node has terminated on its own, the other went back to Idle after a
\* panic, and both consumers have passed try_await_complete.
C12_Witness ==
    /\ worker_status["n2"] = "Terminating"
    /\ cpc["n2"] \in {"loop", "sleep"}
    /\ poisoned["n1"]
    /\ worker_status["n1"] = "Idle"
    /\ task["n1"] = "none"

\* C13: an invocation that returns an error other than EndOfStream leads to
\* the status Terminating and to a done(id) of the node, whatever the
\* GraphStatus.
C13_ErrorSendsDone ==
    \A n \in Nodes :
        (task[n] = "returned" /\ result[n] = "Error")
        ~> (worker_status[n] = "Terminating" /\ n \in SentDone)

\* C14: on EndOfStream the task stores Terminating and sends done(id) in any
\* GraphStatus; on Ok it stores Idle and sends no done.
C14_EndOfStreamAndOk ==
    [][\A n \in Nodes :
          /\ (TaskMatched(n) /\ result[n] = "EndOfStream")
             => /\ worker_status'[n] = "Terminating"
                /\ ev' = [node |-> n, by |-> "task"]
                /\ n \in done_chan'
          /\ (TaskMatched(n) /\ result[n] = "Ok")
             => /\ worker_status'[n] = "Idle"
                /\ ev' = NoEv
                /\ done_chan' = done_chan]_vars

\* The task of a node has sent done(id) after EndOfStream while the graph is
\* Running.
C14_Witness ==
    /\ graph = "Running"
    /\ ev.by = "task"
    /\ worker_status[ev.node] = "Terminating"
    /\ result[ev.node] = "EndOfStream"

\* The safety half of the shutdown: the reader leaves its loop only on
\* Terminating, runs no read cycle afterwards and stops once; the consumer
\* dispatches nothing after it has left its loop and deregisters once, at the
\* exit.
ShutdownFrame ==
    \A n \in Nodes :
        /\ (rpc'[n] = "stopping" /\ rpc[n] # "stopping")
           => (rpc[n] = "loop" /\ graph = "Terminating")
        /\ rpc[n] \in {"stopping", "stopped"}
           => (rpc'[n] \in {"stopping", "stopped"} /\ pushed'[n] = pushed[n])
        /\ (rpc'[n] = "stopped" /\ rpc[n] # "stopped") => rpc[n] = "stopping"
        /\ rpc[n] = "stopped" => rpc'[n] = "stopped"
        /\ (cpc'[n] = "exited" /\ cpc[n] # "exited")
           => (cpc[n] = "loop" /\ graph = "Terminating")
        /\ cpc[n] = "exited"
           => (cpc'[n] = "exited" /\ task'[n] = task[n] /\ handled'[n] = handled[n])
        /\ (n \in profiled /\ n \notin profiled')
           => (cpc[n] = "loop" /\ cpc'[n] = "exited")
        /\ (n \in profiled' /\ n \notin profiled) => cpc[n] = "start"

\* C15: once GraphStatus is Terminating every reader loop and every consumer
\* loop eventually exits, the reader having called stop() once and only after
\* observing Terminating, the consumer having dispatched nothing after
\* observing it and deregistered from the profiler once.
C15_LoopsExit ==
    /\ (graph = "Terminating")
       ~> (\A n \in Nodes :
              /\ cpc[n] = "exited"
              /\ n \notin profiled
              /\ HasQueue(n) => rpc[n] = "stopped")
    /\ [][ShutdownFrame]_vars

\* C16: consume((c, v)) on an existing channel c that does not hold v
\* returns Ok(None) and removes exactly the versions below v; the same
\* consume called again returns Ok(None) and changes nothing.
C16_ConsumeAbsentVersion ==
    [][\A c \in Channels, v \in Versions :
          (c \in available_channels(data) /\ ~has_version(data, c, v)
             /\ IsCall(lastOp', "consume", c, v))
          => /\ lastOp'.status = "Ok"
             /\ lastOp'.packet = None
             /\ DOMAIN data'[c].data = {w \in DOMAIN data[c].data : w >= v}
             /\ \A w \in DOMAIN data'[c].data : data'[c].data[w] = data[c].data[w]
             /\ consume(data', c, v).status = "Ok"
             /\ consume(data', c, v).packet = None
             /\ consume(data', c, v).buf = data']_vars

\* An Ok(None) consume below a version that stays in the channel.
C16_Witness ==
    /\ lastOp.name = "consume"
    /\ lastOp.status = "Ok"
    /\ lastOp.packet = None
    /\ lastOp.version > 1
    /\ \E w \in Versions : w > lastOp.version /\ has_version(data, lastOp.channel, w)

\* C17: consume((c, v)) leaves every version above v of channel c in place,
\* with its packet, and leaves every other channel as it was.
C17_ConsumeFrame ==
    [][\A c \in Channels, v \in Versions :
          IsCall(lastOp', "consume", c, v)
          => /\ available_channels(data') = available_channels(data)
             /\ \A d \in available_channels(data) : d # c => data'[d] = data[d]
             /\ \A w \in Versions :
                   (w > v /\ has_version(data, c, w))
                   => /\ has_version(data', c, w)
                      /\ get(data', c, w).status = "Ok"
                      /\ Stored(data', c, w) = data[c].data[w]
             /\ \A w \in Versions : has_version(data', c, w) => has_version(data, c, w)]_vars

\* A consume that returned a packet while a larger version stays in the same
\* channel and the same version stays in another channel.
C17_Witness ==
    /\ lastOp.name = "consume"
    /\ lastOp.status = "Ok"
    /\ lastOp.packet # None
    /\ \E w \in Versions : w > lastOp.version /\ has_version(data, lastOp.channel, w)
    /\ \E d \in available_channels(data) :
          d # lastOp.channel /\ has_version(data, d, lastOp.version)

\* Channel c is at capacity and every version it holds is above v.
FullAbove(buf, c, v) ==
    /\ Cardinality(DOMAIN buf[c].data) >= buf[c].max_size
    /\ \A w \in DOMAIN buf[c].data : w > v

\* C18 as claimed: whenever insert(c, p) returns Ok((c, p.version)) the packet
\* is stored: has_version(c, p.version) holds and get returns p.
C18_InsertOkStores ==
    [][\A c \in Channels, v \in Versions :
          (IsCall(lastOp', "insert", c, v) /\ lastOp'.status = "Ok")
          => /\ has_version(data', c, v)
             /\ Stored(data', c, v) = lastOp'.payload]_vars

\* C18 as amended: an Ok insert returns (c, p.version); the packet is stored
\* unless the channel was at capacity with only larger versions, and then the
\* new packet is the one evicted and the channel is as before.
C18_InsertOkStoresUnlessEvicted ==
    [][\A c \in Channels, v \in Versions :
          (IsCall(lastOp', "insert", c, v) /\ lastOp'.status = "Ok")
          => /\ lastOp'.rchannel = c
             /\ lastOp'.rversion = v
             /\ IF FullAbove(data, c, v)
                THEN /\ ~has_version(data', c, v)
                     /\ data' = data
                ELSE /\ has_version(data', c, v)
                     /\ Stored(data', c, v) = lastOp'.payload]_vars

\* An Ok insert whose packet is stored in a channel that is then at capacity.
C18_Witness ==
    /\ lastOp.name = "insert"
    /\ lastOp.status = "Ok"
    /\ has_version(data, lastOp.channel, lastOp.version)
    /\ Stored(data, lastOp.channel, lastOp.version) = lastOp.payload
    /\ Cardinality(DOMAIN data[lastOp.channel].data) = data[lastOp.channel].max_size

\* What every done(id) of a consumer satisfies apart from the GraphStatus of
\* the two polling sends: the task sends right after EndOfStream, nothing is
\* sent while the graph is Running without EndOfStream, and the pull timeout
\* leaves the status Idle.
DoneFrame ==
    /\ ev' # NoEv
       => \/ ev'.by \in {"timeout", "sleep"}
          \/ /\ ev'.by = "task"
             /\ TaskMatched(ev'.node)
             /\ result[ev'.node] = "EndOfStream"
    /\ (ev' # NoEv /\ graph = "Running")
       => (ev'.by = "task" /\ result[ev'.node] = "EndOfStream")
    /\ \A n \in Nodes :
          /\ (cpc[n] = "idle" /\ cpc'[n] = "timeout")
             => (worker_status[n] = "Idle" /\ worker_status'[n] = "Idle")
          /\ (cpc[n] \in {"timeout", "timeout_send"})
             => (worker_status[n] = "Idle" /\ worker_status'[n] = "Idle")

\* C19 (as claimed): a consumer sends done(id) only when GraphStatus is
\* WaitingForDataToTerminate at the moment of the send (after a pull timeout
\* while Idle or after the sleep while not Idle) or when the processor has
\* just returned EndOfStream; none is sent while the graph is Running without
\* EndOfStream, and a pull timeout leaves the status Idle.
C19_DoneOnlyWhileDraining ==
    [][/\ DoneFrame
       /\ (ev' # NoEv /\ ev'.by \in {"timeout", "sleep"})
          => (graph = "WaitingForDataToTerminate" /\ graph' = "WaitingForDataToTerminate")]_vars

\* C19 (amended): the two polling sends follow a read of
\* WaitingForDataToTerminate by the consumer (after a pull timeout while Idle,
\* or after the sleep while not Idle); at the moment of the send the graph is
\* draining or, the runtime having finished the drain in between, already
\* Terminating. The rest is as claimed.
C19_DoneOnlyAfterDrainRead ==
    [][/\ DoneFrame
       /\ \A n \in Nodes :
             /\ (cpc'[n] = "timeout_send" /\ cpc[n] # "timeout_send")
                => (cpc[n] = "timeout" /\ graph = "WaitingForDataToTerminate")
             /\ (cpc'[n] = "sleep_send" /\ cpc[n] # "sleep_send")
                => /\ cpc[n] = "sleep"
                   /\ graph = "WaitingForDataToTerminate"
                   /\ worker_status[n] # "Idle"
       /\ (ev' # NoEv /\ ev'.by = "timeout")
          => (cpc[ev'.node] = "timeout_send" /\ graph # "Running")
       /\ (ev' # NoEv /\ ev'.by = "sleep")
          => (cpc[ev'.node] = "sleep_send" /\ graph # "Running")]_vars

\* A polling send that arrives after the runtime has set Terminating.
C19_Witness ==
    /\ ev # NoEv
    /\ ev.by \in {"timeout", "sleep"}
    /\ graph = "Terminating"

\* C20: a tuple leaves the work queue and an invocation is dispatched only
\* when the consumer has just read the status Idle; while the status of a
\* node is Terminating no tuple leaves its work queue and its processor is
\* not invoked.
C20_DispatchOnlyWhenIdle ==
    /\ [](\A n \in Nodes : cpc[n] = "idle" => worker_status[n] = "Idle")
    /\ [][\A n \in Nodes :
             /\ (\/ Len(work_queue'[n]) < Len(work_queue[n])
                 \/ (task'[n] = "queued" /\ task[n] # "queued"))
                => (cpc[n] = "idle" /\ worker_status[n] = "Idle")
             /\ worker_status[n] = "Terminating"
                => /\ Len(work_queue'[n]) >= Len(work_queue[n])
                   /\ handled'[n] = handled[n]
                   /\ task[n] \in {"none", "complete"}
                   /\ task'[n] \in {"none", "complete"}]_vars

\* A Terminating node loops through the non-idle branch with a tuple left in
\* its work queue and an earlier tuple handled.
C20_Witness ==
    \E n \in Nodes :
        /\ worker_status[n] = "Terminating"
        /\ cpc[n] = "sleep"
        /\ work_queue[n] # <<>>
        /\ handled[n] # <<>>

====
